---- MODULE Spec2Model ----
(***************************************************************************)
(* The three programs of virtual-machines-go-manage as one state machine.  *)
(*                                                                         *)
(*   "seq"   src/unnamed/part_000 : sequential, onErrorFail everywhere     *)
(*   "best"  src/unnamed/part_001 : sequential, printError in the battery  *)
(*   "conc"  src/example.go       : two goroutines per phase, WaitGroup    *)
(*                                                                         *)
(* A program is a sequence of instructions (one per statement that reads   *)
(* the environment, authenticates, calls the remote API, starts or joins   *)
(* goroutines, defers, or reads standard input).  A remote call is two     *)
(* steps: it is issued (a "pending" record is appended to the thread's     *)
(* log) and it returns ("ok" or "err"); the remote side is free to fail    *)
(* any call.                                                               *)
(***************************************************************************)
EXTENDS Integers, Sequences, FiniteSets, TLC

VARIABLES variant, env, pc, st, fn, log, local, wg, deferred, scanned,
          authFailed, failures, exitCode, nicID, remoteTags, extChanges,
          naming

vars == <<variant, env, pc, st, fn, log, local, wg, deferred, scanned,
          authFailed, failures, exitCode, nicID, remoteTags, extChanges,
          naming>>

----------------------------------------------------------------------------
(* Bounds and program constants *)

\* the remote side fails at most this many calls in one run
MaxFailures == 2

\* another client changes a VM at most this many times in one run
MaxExternalChanges == 1

DefaultOSDiskSize == 256
SizeIncrement == 10
MaxInt32 == 2147483647
MinInt32 == (-MaxInt32) - 1

Variants == {"seq", "best", "conc"}

linuxVMname == "linuxVM"
windowsVMname == "windowsVM"
VMs == {linuxVMname, windowsVMname}
Threads == {"main"} \cup VMs

EnvVars == {"AZURE_TENANT_ID", "AZURE_CLIENT_ID", "AZURE_CLIENT_SECRET",
            "AZURE_SUBSCRIPTION_ID"}

\* exitCode before the process has ended
NotExited == 0 - 1

----------------------------------------------------------------------------
(* The local copy of a VM: Tags, StorageProfile.DataDisks (the LUNs),      *)
(* StorageProfile.OsDisk.DiskSizeGB, a *int32 (nil or a value), and the    *)
(* fields the server fills in (ProvisioningState, InstanceView, VMID).     *)

NilSize == [isNil |-> TRUE, v |-> 0]
SizeOf(n) == [isNil |-> FALSE, v |-> n]

\* the OS-disk sizes a Get may report
FetchedSizes == {NilSize, SizeOf(-1), SizeOf(0), SizeOf(30),
                 SizeOf(MaxInt32 - SizeIncrement), SizeOf(MaxInt32)}

NoRep == [tags |-> "nil", disks |-> <<>>, size |-> NilSize, ro |-> "nil"]

\* a pointer that is nil
NoID == << >>

\* the ID the server gives the interface "nic-<machine>"
NicResourceID(machine) == << "networkInterfaces", "nic", machine >>

\* int32 addition of a non-negative b, wrapping as Go does
Add32(a, b) ==
  IF a > MaxInt32 - b THEN MinInt32 + ((a - (MaxInt32 - b)) - 1) ELSE a + b

\* part_000 vmOperations: vm.ProvisioningState, vm.InstanceView, vm.VMID = nil
clearReadOnly(vm) == [vm EXCEPT !.ro = "nil"]

\* vm.Tags = &map{"who rocks": "golang", "where": "on azure"}
updateVM(vm) == [vm EXCEPT !.tags = "set"]

\* mutant: the disk is attached to a new object, which has no tags
attachDataDisk_newObject(vm) == [vm EXCEPT !.disks = <<0>>, !.tags = "nil"]

\* vm.StorageProfile.DataDisks = one disk at LUN 0
attachDataDisk(vm) == [vm EXCEPT !.disks = <<0>>]

\* vm.StorageProfile.DataDisks = empty list
detachDataDisks(vm) == [vm EXCEPT !.disks = <<>>]

\* updateOSdiskSize, before Deallocate: a nil size becomes a pointer to 0
nilToZero(vm) == IF vm.size.isNil THEN [vm EXCEPT !.size = SizeOf(0)] ELSE vm

\* mutant: the default is substituted for a negative size only
defaultThenIncrement_strict(vm) ==
  LET base == IF vm.size.v < 0 THEN DefaultOSDiskSize ELSE vm.size.v
  IN  [vm EXCEPT !.size = SizeOf(Add32(base, SizeIncrement))]

\* updateOSdiskSize, after Deallocate: default, then increment
defaultThenIncrement(vm) ==
  LET base == IF vm.size.v <= 0 THEN DefaultOSDiskSize ELSE vm.size.v
  IN  [vm EXCEPT !.size = SizeOf(Add32(base, SizeIncrement))]

\* what a step does to the local copy before it submits its call
Mutate(op, vm) ==
  CASE op = "updateVM"         -> updateVM(vm)
    [] op = "attachDataDisk"   -> attachDataDisk(vm)
    [] op = "detachDataDisks"  -> detachDataDisks(vm)
    [] op = "Deallocate"       -> nilToZero(vm)
    [] op = "updateOSdiskSize" -> defaultThenIncrement(vm)
    [] OTHER                   -> vm

\* the calls that carry the whole local copy (vmClient.CreateOrUpdate)
Submits == {"updateVM", "attachDataDisk", "detachDataDisks", "updateOSdiskSize"}

----------------------------------------------------------------------------
(* Instructions *)

Instr(k, op, vm, onErr) == [k |-> k, op |-> op, vm |-> vm, onErr |-> onErr]
Call(op, vm, onErr) == Instr("call", op, vm, onErr)

\* onErr: "exit"   onErrorFail: print, os.Exit(1)
\*        "return" the error travels up to main, which prints it and returns
\*        "log"    printError, then the next statement
\*        "skip"   vmOperations returns the error, main prints it and goes on

getEnvVarOrExit(varName) == Instr("env", varName, "", "exit")

createNeededResources(onErr) ==
  << Call("groupClient.CreateOrUpdate", "", onErr),
     Call("accountClient.Create", "", onErr),
     Call("vNetClient.CreateOrUpdate", "", onErr),
     Call("subnetClient.CreateOrUpdate", "", onErr),
     Call("subnetClient.Get", "", onErr) >>

\* mutant: the interface is created before the public address
createPIPandNIC_nicFirst(machine, onErr) ==
  << Call("interfacesClient.CreateOrUpdate", machine, onErr),
     Call("interfacesClient.Get", machine, onErr),
     Call("addressClient.CreateOrUpdate", machine, onErr),
     Call("addressClient.Get", machine, onErr) >>

createPIPandNIC(machine, onErr) ==
  << Call("addressClient.CreateOrUpdate", machine, onErr),
     Call("addressClient.Get", machine, onErr),
     Call("interfacesClient.CreateOrUpdate", machine, onErr),
     Call("interfacesClient.Get", machine, onErr) >>

\* mutant: the interface is not fetched back before the VM is created
createVM_noNicGet(vmName, onErr) ==
  << Call("addressClient.CreateOrUpdate", vmName, onErr),
     Call("addressClient.Get", vmName, onErr),
     Call("interfacesClient.CreateOrUpdate", vmName, onErr),
     Call("createVM", vmName, onErr) >>

createVM(vmName, onErr) ==
  createPIPandNIC(vmName, onErr) \o << Call("createVM", vmName, onErr) >>

\* mutant: the data disks are detached before the disk is attached
vmOperations_detachFirst(vmName, onGetErr, onErr) ==
  << Call("getVM", vmName, onGetErr),
     Call("updateVM", vmName, onErr),
     Call("detachDataDisks", vmName, onErr),
     Call("attachDataDisk", vmName, onErr),
     Call("Deallocate", vmName, onErr),
     Call("updateOSdiskSize", vmName, onErr),
     Call("startVM", vmName, onErr),
     Call("restartVM", vmName, onErr),
     Call("stopVM", vmName, onErr) >>

\* mutant: the resize is submitted before the VM is deallocated
vmOperations_resizeFirst(vmName, onGetErr, onErr) ==
  << Call("getVM", vmName, onGetErr),
     Call("updateVM", vmName, onErr),
     Call("attachDataDisk", vmName, onErr),
     Call("detachDataDisks", vmName, onErr),
     Call("updateOSdiskSize", vmName, onErr),
     Call("Deallocate", vmName, onErr),
     Call("startVM", vmName, onErr),
     Call("restartVM", vmName, onErr),
     Call("stopVM", vmName, onErr) >>

vmOperations(vmName, onGetErr, onErr) ==
  << Call("getVM", vmName, onGetErr),
     Call("updateVM", vmName, onErr),
     Call("attachDataDisk", vmName, onErr),
     Call("detachDataDisks", vmName, onErr),
     Call("Deallocate", vmName, onErr),
     Call("updateOSdiskSize", vmName, onErr),
     Call("startVM", vmName, onErr),
     Call("restartVM", vmName, onErr),
     Call("stopVM", vmName, onErr) >>

listVMs(onErr) == << Call("listVMs", "", onErr) >>

\* mutant: the error of vmClient.Delete is printed and not fatal
deleteVM_unchecked(vmName) == << Call("deleteVM", vmName, "log") >>

deleteVM(vmName) == << Call("deleteVM", vmName, "exit") >>

groupDelete == Call("groupClient.Delete", "", "exit")

\* utils.GetAuthorizer of go-autorest: reads the three identity variables
\* with GetEnvVarOrExit and builds the service principal token
GetAuthorizer ==
  << getEnvVarOrExit("AZURE_TENANT_ID"),
     Instr("auth", "NewOAuthConfig", "", "exit"),
     getEnvVarOrExit("AZURE_CLIENT_ID"),
     getEnvVarOrExit("AZURE_CLIENT_SECRET"),
     Instr("auth", "NewServicePrincipalToken", "", "exit") >>

\* mutant: AZURE_CLIENT_SECRET is read with os.Getenv and not tested
init_part000_noSecretTest ==
  << Instr("env", "AZURE_SUBSCRIPTION_ID", "", "exit"),
     Instr("env", "AZURE_TENANT_ID", "", "exit"),
     Instr("auth", "OAuthConfigForTenant", "", "exit"),
     Instr("env", "AZURE_CLIENT_ID", "", "exit"),
     Instr("auth", "NewServicePrincipalToken", "", "exit") >>

\* part_000: init
init_part000 ==
  << getEnvVarOrExit("AZURE_SUBSCRIPTION_ID"),
     getEnvVarOrExit("AZURE_TENANT_ID"),
     Instr("auth", "OAuthConfigForTenant", "", "exit"),
     getEnvVarOrExit("AZURE_CLIENT_ID"),
     getEnvVarOrExit("AZURE_CLIENT_SECRET"),
     Instr("auth", "NewServicePrincipalToken", "", "exit") >>

\* mutant: the error createVM returns is dropped
main_part000_createUnchecked ==
  createNeededResources("exit")
  \o << Instr("defer", "groupClient.Delete", "", "") >>
  \o createVM(linuxVMname, "log")
  \o vmOperations(linuxVMname, "exit", "exit")
  \o createVM(windowsVMname, "log")
  \o vmOperations(windowsVMname, "exit", "exit")
  \o listVMs("exit")
  \o << Instr("scan", "fmt.Scanln", "", "") >>
  \o deleteVM(linuxVMname)
  \o deleteVM(windowsVMname)
  \o << groupDelete >>

\* part_000: main
main_part000 ==
  createNeededResources("exit")
  \o << Instr("defer", "groupClient.Delete", "", "") >>
  \o createVM(linuxVMname, "exit")
  \o vmOperations(linuxVMname, "exit", "exit")
  \o createVM(windowsVMname, "exit")
  \o vmOperations(windowsVMname, "exit", "exit")
  \o listVMs("exit")
  \o << Instr("scan", "fmt.Scanln", "", "") >>
  \o deleteVM(linuxVMname)
  \o deleteVM(windowsVMname)
  \o << groupDelete >>

\* part_001: getCredentials with checkEnvVar over the four variables
getCredentials == << Instr("env", "ALL", "", "return") >>

\* part_001: getToken
getToken ==
  << Instr("auth", "OAuthConfigForTenant", "", "return"),
     Instr("auth", "NewServicePrincipalToken", "", "return") >>

\* part_001: setup
setup == getCredentials \o getToken \o createNeededResources("return")

\* mutant: a failed Get of the Linux VM's battery makes main return
main_part001_getReturns ==
  setup
  \o createVM(linuxVMname, "return")
  \o vmOperations(linuxVMname, "return", "log")
  \o createVM(windowsVMname, "return")
  \o vmOperations(windowsVMname, "skip", "log")
  \o listVMs("log")

\* mutant: an error inside the battery is returned to main, which stops
main_part001_batteryReturns ==
  setup
  \o createVM(linuxVMname, "return")
  \o vmOperations(linuxVMname, "skip", "return")
  \o createVM(windowsVMname, "return")
  \o vmOperations(windowsVMname, "skip", "return")
  \o listVMs("log")

\* part_001: main (the deletes are commented out in the source)
main_part001 ==
  setup
  \o createVM(linuxVMname, "return")
  \o vmOperations(linuxVMname, "skip", "log")
  \o createVM(windowsVMname, "return")
  \o vmOperations(windowsVMname, "skip", "log")
  \o listVMs("log")

\* example.go: init
init_example ==
  << getEnvVarOrExit("AZURE_SUBSCRIPTION_ID") >> \o GetAuthorizer

\* mutant: the VMs are listed while the batteries are still running
main_example_listEarly ==
  createNeededResources("exit")
  \o << Instr("defer", "groupClient.Delete", "", ""),
        Instr("go", "createVM", "", ""),
        Instr("wait", "wg.Wait", "", ""),
        Instr("go", "vmOperations", "", "") >>
  \o listVMs("exit")
  \o << Instr("wait", "wg.Wait", "", ""),
        Instr("scan", "fmt.Scanln", "", ""),
        Instr("go", "deleteVM", "", ""),
        Instr("wait", "wg.Wait", "", ""),
        groupDelete >>

\* mutant: the VMs are deleted before the program waits for the user
main_example_scanLast ==
  createNeededResources("exit")
  \o << Instr("defer", "groupClient.Delete", "", ""),
        Instr("go", "createVM", "", ""),
        Instr("wait", "wg.Wait", "", ""),
        Instr("go", "vmOperations", "", ""),
        Instr("wait", "wg.Wait", "", "") >>
  \o listVMs("exit")
  \o << Instr("go", "deleteVM", "", ""),
        Instr("wait", "wg.Wait", "", ""),
        Instr("scan", "fmt.Scanln", "", ""),
        groupDelete >>

\* example.go: main
main_example ==
  createNeededResources("exit")
  \o << Instr("defer", "groupClient.Delete", "", ""),
        Instr("go", "createVM", "", ""),
        Instr("wait", "wg.Wait", "", ""),
        Instr("go", "vmOperations", "", ""),
        Instr("wait", "wg.Wait", "", "") >>
  \o listVMs("exit")
  \o << Instr("scan", "fmt.Scanln", "", ""),
        Instr("go", "deleteVM", "", ""),
        Instr("wait", "wg.Wait", "", ""),
        groupDelete >>

\* the body of the goroutine started by "go f(vmName, ..., &wg)"
Goroutine(f, vmName) ==
  CASE f = "createVM"     -> createVM(vmName, "exit")
    [] f = "vmOperations" -> vmOperations(vmName, "exit", "exit")
    [] f = "deleteVM"     -> deleteVM(vmName)
    [] OTHER              -> << >>

Prog(t) ==
  IF t = "main"
  THEN CASE variant = "seq"  -> init_part000 \o main_part000
         [] variant = "best" -> main_part001
         [] OTHER            -> init_example \o main_example
  ELSE Goroutine(fn[t], t)

-----------------------------------------------------------------------------
(* Names *)
(* A string is the sequence of its characters.  Go strings are byte        *)
(* sequences in UTF-8: machine[:5] takes five bytes, strings.ToLower works *)
(* on the runes it decodes.                                                *)

\* the longest machine name tried
MaxNameLen == 6

\* machine[:5]
LabelLen == 5

\* an ASCII lower-case letter, an ASCII upper-case letter, a letter of two
\* bytes
Alphabet == {"a", "B", "U+00E9"}

\* the fixed names, letter by letter
Spell(vmName) ==
  IF vmName = linuxVMname
  THEN << "l", "i", "n", "u", "x", "V", "M" >>
  ELSE << "w", "i", "n", "d", "o", "w", "s", "V", "M" >>

NameInputs ==
  {Spell(v) : v \in VMs} \cup UNION {[1..n -> Alphabet] : n \in 0..MaxNameLen}

\* the UTF-8 encoding of a character
Utf8(c) == IF c = "U+00E9" THEN << "0xC3", "0xA9" >> ELSE << c >>

RECURSIVE Bytes(_)
Bytes(s) == IF s = << >> THEN << >> ELSE Utf8(Head(s)) \o Bytes(Tail(s))

\* the runes of a byte sequence; a byte that starts no complete encoding
\* decodes to U+FFFD
RECURSIVE Runes(_)
Runes(b) ==
  IF b = << >> THEN << >>
  ELSE IF Head(b) = "0xC3" /\ Len(b) >= 2 /\ b[2] = "0xA9"
       THEN << "U+00E9" >> \o Runes(SubSeq(b, 3, Len(b)))
       ELSE IF Head(b) \in {"0xC3", "0xA9"}
            THEN << "U+FFFD" >> \o Runes(Tail(b))
            ELSE << Head(b) >> \o Runes(Tail(b))

\* unicode.ToLower
ToLowerRune(c) ==
  CASE c = "B" -> "b"
    [] c = "V" -> "v"
    [] c = "M" -> "m"
    [] OTHER   -> c

\* strings.ToLower
ToLower(b) == [i \in 1..Len(Runes(b)) |-> ToLowerRune(Runes(b)[i])]

\* machine[:5] panics (slice bounds out of range) on a shorter string
SliceFaults(machine) == Len(Bytes(machine)) < LabelLen

\* mutant: the label keeps the case of the name
DomainNameLabel_keepCase(machine) ==
  << "azuresample-" >> \o Runes(SubSeq(Bytes(machine), 1, LabelLen))

\* fmt.Sprintf("azuresample-%s", strings.ToLower(machine[:5]))
DomainNameLabel(machine) ==
  << "azuresample-" >> \o ToLower(SubSeq(Bytes(machine), 1, LabelLen))

\* fmt.Sprintf("pip-%s", machine)
IPname(machine) == << "pip-" >> \o machine

\* fmt.Sprintf("nic-%s", machine)
nicName(machine) == << "nic-" >> \o machine

\* fmt.Sprintf(vhdURItemplate, accountName, vmName)
vhdURI(vmName) ==
  << "https://", "golangrocksonazure", ".blob.core.windows.net/golangcontainer/" >>
  \o vmName \o << ".vhd" >>

\* the names derived so far for one machine and the calls made with them
NotNaming ==
  [machine |-> << >>, step |-> "unused", IPname |-> << >>, label |-> << >>,
   nicName |-> << >>, vhdURI |-> << >>, calls |-> << >>]

----------------------------------------------------------------------------
(* State *)

Init ==
  /\ variant \in Variants
  /\ env \in [EnvVars -> {"", "set"}]
  /\ pc = [t \in Threads |-> 1]
  /\ st = [t \in Threads |-> IF t = "main" THEN "ready" ELSE "idle"]
  /\ fn = [t \in Threads |-> ""]
  /\ log = [t \in Threads |-> << >>]
  /\ local = [t \in Threads |-> NoRep]
  /\ wg = 0
  /\ deferred = FALSE
  /\ scanned = FALSE
  /\ authFailed = FALSE
  /\ failures = 0
  /\ exitCode = NotExited
  /\ nicID = [t \in Threads |-> NoID]
  /\ remoteTags = [v \in VMs |-> "nil"]
  /\ extChanges = [v \in VMs |-> 0]
  /\ naming = NotNaming

Running == exitCode = NotExited

AtEnd(t) == pc[t] > Len(Prog(t))

Cur(t) == Prog(t)[pc[t]]

At(t, k) == Running /\ st[t] = "ready" /\ ~AtEnd(t) /\ Cur(t).k = k

\* mutant: every error is printed and the next statement runs
AfterError_printOnly(t, onErr) ==
  /\ st' = [st EXCEPT ![t] = "ready"]
  /\ pc' = [pc EXCEPT ![t] = @ + 1]

\* what an error does to the thread that got it
AfterError(t, onErr) ==
  CASE onErr = "exit"   -> /\ st' = [st EXCEPT ![t] = "failing"]
                           /\ pc' = pc
    [] onErr = "return" -> /\ st' = [st EXCEPT ![t] = "returning"]
                           /\ pc' = pc
    [] onErr = "skip"   -> /\ st' = [st EXCEPT ![t] = "ready"]
                           /\ pc' = [pc EXCEPT ![t] = @ + Len(vmOperations("", "", ""))]
    [] OTHER            -> /\ st' = [st EXCEPT ![t] = "ready"]
                           /\ pc' = [pc EXCEPT ![t] = @ + 1]

----------------------------------------------------------------------------
(* Actions *)

\* os.Getenv and the test value == "" (getEnvVarOrExit, checkEnvVar)
GetEnv ==
  /\ At("main", "env")
  /\ LET need    == IF Cur("main").op = "ALL" THEN EnvVars ELSE {Cur("main").op}
         missing == {v \in need : env[v] = ""}
     IN  IF missing = {}
         THEN /\ pc' = [pc EXCEPT !["main"] = @ + 1]
              /\ UNCHANGED <<st, exitCode>>
         ELSE IF Cur("main").onErr = "exit"
              THEN /\ exitCode' = 1
                   /\ UNCHANGED <<pc, st>>
              ELSE /\ AfterError("main", Cur("main").onErr)
                   /\ UNCHANGED exitCode
  /\ UNCHANGED <<variant, env, fn, log, local, wg, deferred, scanned,
                 authFailed, failures,
                 nicID, remoteTags, extChanges, naming>>

\* OAuthConfigForTenant / NewServicePrincipalToken: no remote call, may fail
Authenticate ==
  /\ At("main", "auth")
  /\ \/ /\ pc' = [pc EXCEPT !["main"] = @ + 1]
        /\ UNCHANGED <<st, authFailed>>
     \/ /\ authFailed' = TRUE
        /\ AfterError("main", Cur("main").onErr)
  /\ UNCHANGED <<variant, env, fn, log, local, wg, deferred, scanned,
                 failures, exitCode,
                 nicID, remoteTags, extChanges, naming>>

\* mutant: the call is issued and its result is not waited for
IssueCall_noWait(t) ==
  /\ At(t, "call")
  /\ log' = [log EXCEPT ![t] = Append(@,
               [op |-> Cur(t).op, vm |-> Cur(t).vm, onErr |-> Cur(t).onErr,
                res |-> "pending", arg |-> NoRep, nic |-> NoID])]
  /\ pc' = [pc EXCEPT ![t] = @ + 1]
  /\ UNCHANGED <<variant, env, st, fn, local, wg, deferred, scanned, authFailed,
                 failures, exitCode, nicID, remoteTags, extChanges, naming>>

\* mutant: the goroutines work on one VM variable of the package
Slot_shared(t) == "main"

\* the VM variable a thread works on: "vm" is a local of vmOperations, one per
\* call, so each goroutine has its own
Slot(t) == t

\* a remote call is issued: the step's change to the local copy, then the
\* request; the thread blocks until the call returns
IssueCall(t) ==
  /\ At(t, "call")
  /\ LET i  == Cur(t)
         vm == Mutate(i.op, IF variant = "seq" /\ i.op = "updateVM"
                            THEN clearReadOnly(local[Slot(t)])
                            ELSE local[Slot(t)])
         id == IF i.op = "interfacesClient.CreateOrUpdate"
               THEN NoID ELSE nicID[t]
     IN  /\ local' = [local EXCEPT ![Slot(t)] = vm]
         /\ nicID' = [nicID EXCEPT ![t] = id]
         /\ log' = [log EXCEPT ![t] = Append(@,
                      [op |-> i.op, vm |-> i.vm, onErr |-> i.onErr,
                       res |-> "pending",
                       arg |-> IF i.op \in Submits THEN vm ELSE NoRep,
                       nic |-> IF i.op = "createVM" THEN id ELSE NoID])]
  /\ st' = [st EXCEPT ![t] = "pending"]
  /\ UNCHANGED <<variant, env, pc, fn, wg, deferred, scanned, authFailed,
                 failures, exitCode, remoteTags, extChanges, naming>>

\* the pending call of t returns; the statement that follows it in the source
\* (onErrorFail, printError, "if err != nil { return err }") decides what next
ReturnCall(t) ==
  /\ Running
  /\ st[t] = "pending"
  /\ LET n == Len(log[t])
         r == log[t][n]
     IN  \/ /\ \E s \in FetchedSizes :
                 LET got == IF r.op = "getVM"
                            THEN [tags |-> remoteTags[r.vm], disks |-> << >>,
                                  size |-> s, ro |-> "set"]
                            ELSE NoRep
                     id  == IF r.op = "interfacesClient.Get"
                            THEN NicResourceID(r.vm) ELSE NoID
                 IN  /\ r.op # "getVM" => s = NilSize
                     /\ log' = [log EXCEPT ![t][n] =
                                  [@ EXCEPT !.res = "ok",
                                            !.arg = IF r.op = "getVM" THEN got ELSE @,
                                            !.nic = IF r.op = "interfacesClient.Get"
                                                    THEN id ELSE @]]
                     /\ local' = IF r.op = "getVM"
                                 THEN [local EXCEPT ![Slot(t)] = got]
                                 ELSE local
                     /\ nicID' = IF r.op = "interfacesClient.Get"
                                 THEN [nicID EXCEPT ![t] = id]
                                 ELSE nicID
                     /\ remoteTags' = IF r.op \in Submits \ {"createVM"}
                                      THEN [remoteTags EXCEPT ![r.vm] = r.arg.tags]
                                      ELSE remoteTags
            /\ IF r.onErr = "deferred"
               THEN /\ exitCode' = 0
                    /\ UNCHANGED <<pc, st>>
               ELSE /\ pc' = [pc EXCEPT ![t] = @ + 1]
                    /\ st' = [st EXCEPT ![t] = "ready"]
                    /\ UNCHANGED exitCode
            /\ UNCHANGED failures
         \/ /\ failures < MaxFailures
            /\ failures' = failures + 1
            /\ log' = [log EXCEPT ![t][n] = [@ EXCEPT !.res = "err"]]
            /\ IF r.onErr = "deferred"
               THEN /\ exitCode' = 0
                    /\ UNCHANGED <<pc, st>>
               ELSE /\ AfterError(t, r.onErr)
                    /\ UNCHANGED exitCode
            /\ UNCHANGED <<local, nicID, remoteTags>>
  /\ UNCHANGED <<variant, env, fn, wg, deferred, scanned, authFailed,
                 extChanges, naming>>

\* mutant: the error ends the goroutine only, and its deferred wg.Done() runs
onErrorFail_goexit(t) ==
  /\ Running
  /\ st[t] = "failing"
  /\ st' = [st EXCEPT ![t] = IF t \in VMs THEN "idle" ELSE "returning"]
  /\ wg' = IF t \in VMs THEN wg - 1 ELSE wg
  /\ UNCHANGED <<variant, env, pc, fn, log, local, deferred, scanned,
                 authFailed, failures, exitCode, nicID, remoteTags, extChanges,
                 naming>>

\* mutant: the error makes main return, so that its deferred calls run
onErrorFail_return(t) ==
  /\ Running
  /\ st[t] = "failing"
  /\ st' = [st EXCEPT !["main"] = "returning"]
  /\ UNCHANGED <<variant, env, pc, fn, log, local, wg, deferred, scanned,
                 authFailed, failures, exitCode, nicID, remoteTags, extChanges, naming>>

\* onErrorFail with a non-nil error: print, os.Exit(1); deferred calls do not run
onErrorFail(t) ==
  /\ Running
  /\ st[t] = "failing"
  /\ exitCode' = 1
  /\ UNCHANGED <<variant, env, pc, st, fn, log, local, wg, deferred, scanned,
                 authFailed, failures,
                 nicID, remoteTags, extChanges, naming>>

\* defer groupClient.Delete(groupName, nil)
Defer ==
  /\ At("main", "defer")
  /\ deferred' = TRUE
  /\ pc' = [pc EXCEPT !["main"] = @ + 1]
  /\ UNCHANGED <<variant, env, st, fn, log, local, wg, scanned, authFailed,
                 failures, exitCode,
                 nicID, remoteTags, extChanges, naming>>

\* mutant: wg.Add(1) for the two goroutines
Go_addOne ==
  /\ At("main", "go")
  /\ wg' = wg + 1
  /\ fn' = [t \in Threads |-> IF t \in VMs THEN Cur("main").op ELSE fn[t]]
  /\ pc' = [t \in Threads |-> IF t \in VMs THEN 1 ELSE pc[t] + 1]
  /\ st' = [t \in Threads |-> IF t \in VMs THEN "ready" ELSE st[t]]
  /\ UNCHANGED <<variant, env, log, local, deferred, scanned, authFailed,
                 failures, exitCode, nicID, remoteTags, extChanges, naming>>

\* wg.Add(2); go f(linuxVMname, &wg); go f(windowsVMname, &wg)
Go ==
  /\ At("main", "go")
  /\ wg' = wg + 2
  /\ fn' = [t \in Threads |-> IF t \in VMs THEN Cur("main").op ELSE fn[t]]
  /\ pc' = [t \in Threads |-> IF t \in VMs THEN 1 ELSE pc[t] + 1]
  /\ st' = [t \in Threads |-> IF t \in VMs THEN "ready" ELSE st[t]]
  /\ UNCHANGED <<variant, env, log, local, deferred, scanned, authFailed,
                 failures, exitCode,
                 nicID, remoteTags, extChanges, naming>>

\* mutant: the goroutine returns without wg.Done()
Done_missing(t) ==
  /\ Running
  /\ t \in VMs
  /\ st[t] = "ready"
  /\ AtEnd(t)
  /\ st' = [st EXCEPT ![t] = "idle"]
  /\ UNCHANGED <<variant, env, pc, fn, log, local, wg, deferred, scanned,
                 authFailed, failures, exitCode, nicID, remoteTags, extChanges,
                 naming>>

\* a goroutine returns: its deferred wg.Done() runs
Done(t) ==
  /\ Running
  /\ t \in VMs
  /\ st[t] = "ready"
  /\ AtEnd(t)
  /\ wg' = wg - 1
  /\ st' = [st EXCEPT ![t] = "idle"]
  /\ UNCHANGED <<variant, env, pc, fn, log, local, deferred, scanned,
                 authFailed, failures, exitCode,
                 nicID, remoteTags, extChanges, naming>>

\* mutant: wg.Wait() returns without looking at the counter
Wait_noBarrier ==
  /\ At("main", "wait")
  /\ pc' = [pc EXCEPT !["main"] = @ + 1]
  /\ UNCHANGED <<variant, env, st, fn, log, local, wg, deferred, scanned,
                 authFailed, failures, exitCode,
                 nicID, remoteTags, extChanges, naming>>

\* wg.Wait() returns once the counter is zero
Wait ==
  /\ At("main", "wait")
  /\ wg = 0
  /\ pc' = [pc EXCEPT !["main"] = @ + 1]
  /\ UNCHANGED <<variant, env, st, fn, log, local, wg, deferred, scanned,
                 authFailed, failures, exitCode,
                 nicID, remoteTags, extChanges, naming>>

\* fmt.Scanln(&input) returns
Scanln ==
  /\ At("main", "scan")
  /\ scanned' = TRUE
  /\ pc' = [pc EXCEPT !["main"] = @ + 1]
  /\ UNCHANGED <<variant, env, st, fn, log, local, wg, deferred, authFailed,
                 failures, exitCode,
                 nicID, remoteTags, extChanges, naming>>

\* main returns (at its end, or early in part_001).  A registered deferred
\* groupClient.Delete runs first: in part_000 it blocks until the call
\* returns and drops the result; in example.go it only starts the request
\* and hands back two channels nobody reads, so the process may end before
\* or after the request leaves.
MainReturn ==
  /\ Running
  /\ \/ st["main"] = "returning"
     \/ st["main"] = "ready" /\ AtEnd("main")
  /\ LET d == [op |-> "groupClient.Delete", vm |-> "", onErr |-> "deferred",
               res |-> "pending", arg |-> NoRep, nic |-> NoID]
     IN  IF ~deferred
         THEN /\ exitCode' = 0
              /\ UNCHANGED <<log, st>>
         ELSE IF variant = "seq"
              THEN /\ log' = [log EXCEPT !["main"] = Append(@, d)]
                   /\ st' = [st EXCEPT !["main"] = "pending"]
                   /\ UNCHANGED exitCode
              ELSE /\ exitCode' = 0
                   /\ \/ log' = [log EXCEPT !["main"] = Append(@, d)]
                      \/ log' = log
                   /\ UNCHANGED st
  /\ UNCHANGED <<variant, env, pc, fn, local, wg, deferred, scanned,
                 authFailed, failures,
                 nicID, remoteTags, extChanges, naming>>

Next ==
  \/ GetEnv
  \/ Authenticate
  \/ \E t \in Threads : IssueCall(t)
  \/ \E t \in Threads : ReturnCall(t)
  \/ \E t \in Threads : onErrorFail(t)
  \/ Defer
  \/ Go
  \/ \E t \in Threads : Done(t)
  \/ Wait
  \/ Scanln
  \/ MainReturn

Spec == Init /\ [][Next]_vars

\* the mutating calls of the battery that are followed by another one
MutatingSteps == {"updateVM", "attachDataDisk", "detachDataDisks", "Deallocate"}

\* another client of the same subscription retags a VM between two mutating
\* steps of its battery: the call of the earlier step has returned, the call
\* of the later one is not yet issued
ExternalChange(vmName) ==
  /\ Running
  /\ extChanges[linuxVMname] + extChanges[windowsVMname] < MaxExternalChanges
  /\ \E t \in Threads :
       /\ st[t] = "ready"
       /\ Len(log[t]) > 0
       /\ log[t][Len(log[t])].vm = vmName
       /\ log[t][Len(log[t])].op \in MutatingSteps
  /\ remoteTags' = [remoteTags EXCEPT ![vmName] = "other"]
  /\ extChanges' = [extChanges EXCEPT ![vmName] = @ + 1]
  /\ UNCHANGED <<variant, env, pc, st, fn, log, local, wg, deferred, scanned,
                 authFailed, failures, exitCode, nicID, naming>>

NextShared ==
  \/ Next
  \/ \E vmName \in VMs : ExternalChange(vmName)

\* the program with another client working on the same VMs
SpecShared == Init /\ [][NextShared]_vars

-----------------------------------------------------------------------------
(* createVM for one machine name, statement by statement, every remote     *)
(* call successful: the names it derives and the calls it makes with them. *)

program == <<variant, env, pc, st, fn, log, local, wg, deferred, scanned,
             authFailed, failures, exitCode, nicID, remoteTags, extChanges>>

InitNames ==
  /\ variant = "conc"
  /\ env = [v \in EnvVars |-> "set"]
  /\ pc = [t \in Threads |-> 1]
  /\ st = [t \in Threads |-> IF t = "main" THEN "ready" ELSE "idle"]
  /\ fn = [t \in Threads |-> ""]
  /\ log = [t \in Threads |-> << >>]
  /\ local = [t \in Threads |-> NoRep]
  /\ wg = 0
  /\ deferred = FALSE
  /\ scanned = FALSE
  /\ authFailed = FALSE
  /\ failures = 0
  /\ exitCode = NotExited
  /\ nicID = [t \in Threads |-> NoID]
  /\ remoteTags = [v \in VMs |-> "nil"]
  /\ extChanges = [v \in VMs |-> 0]
  /\ \E m \in NameInputs :
       naming = [NotNaming EXCEPT !.machine = m, !.step = "start"]

\* createPIPandNIC: IPname := fmt.Sprintf("pip-%s", machine)
DeriveIPname ==
  /\ naming.step = "start"
  /\ naming' = [naming EXCEPT !.step = "IPname", !.IPname = IPname(naming.machine)]
  /\ UNCHANGED program

\* createPIPandNIC: pipParameters, with the DomainNameLabel
DeriveLabel ==
  /\ naming.step = "IPname"
  /\ naming' = IF SliceFaults(naming.machine)
               THEN [naming EXCEPT !.step = "fault"]
               ELSE [naming EXCEPT !.step = "label",
                                   !.label = DomainNameLabel(naming.machine)]
  /\ UNCHANGED program

\* createPIPandNIC: addressClient.CreateOrUpdate, addressClient.Get
CallAddress ==
  /\ naming.step = "label"
  /\ naming' = [naming EXCEPT !.step = "address",
                  !.calls = @ \o << [op |-> "addressClient.CreateOrUpdate",
                                     name |-> naming.IPname],
                                    [op |-> "addressClient.Get",
                                     name |-> naming.IPname] >>]
  /\ UNCHANGED program

\* createPIPandNIC: nicName := fmt.Sprintf("nic-%s", machine)
DeriveNicName ==
  /\ naming.step = "address"
  /\ naming' = [naming EXCEPT !.step = "nicName",
                              !.nicName = nicName(naming.machine)]
  /\ UNCHANGED program

\* createPIPandNIC: interfacesClient.CreateOrUpdate, interfacesClient.Get
CallInterface ==
  /\ naming.step = "nicName"
  /\ naming' = [naming EXCEPT !.step = "interface",
                  !.calls = @ \o << [op |-> "interfacesClient.CreateOrUpdate",
                                     name |-> naming.nicName],
                                    [op |-> "interfacesClient.Get",
                                     name |-> naming.nicName] >>]
  /\ UNCHANGED program

\* setVMparameters: the URI of the OS disk
DeriveVhdURI ==
  /\ naming.step = "interface"
  /\ naming' = [naming EXCEPT !.step = "vhdURI",
                              !.vhdURI = vhdURI(naming.machine)]
  /\ UNCHANGED program

\* createVM: vmClient.CreateOrUpdate
CallCreateVM ==
  /\ naming.step = "vhdURI"
  /\ naming' = [naming EXCEPT !.step = "created",
                  !.calls = @ \o << [op |-> "vmClient.CreateOrUpdate",
                                     name |-> naming.machine] >>]
  /\ UNCHANGED program

NextNames ==
  \/ DeriveIPname
  \/ DeriveLabel
  \/ CallAddress
  \/ DeriveNicName
  \/ CallInterface
  \/ DeriveVhdURI
  \/ CallCreateVM

SpecNames == InitNames /\ [][NextNames]_vars

----------------------------------------------------------------------------
(* Vocabulary of the properties *)

Records(t) == {log[t][i] : i \in 1..Len(log[t])}

\* every call of the pipeline issued so far (the deferred delete apart)
AllRecords == {r \in UNION {Records(t) : t \in Threads} : r.onErr # "deferred"}

Issued(op, vm) == \E r \in AllRecords : r.op = op /\ r.vm = vm

Ok(op, vm) == \E r \in AllRecords : r.op = op /\ r.vm = vm /\ r.res = "ok"

Failed(op, vm) == \E r \in AllRecords : r.op = op /\ r.vm = vm /\ r.res = "err"

MissingEnv == \E v \in EnvVars : env[v] = ""

IsPrefix(s, u) == Len(s) <= Len(u) /\ \A i \in 1..Len(s) : s[i] = u[i]

\* the calls about vmName in the order they were issued: those main made
\* itself, then those of the goroutines started for vmName
VmCalls(vmName) ==
  SelectSeq(log["main"], LAMBDA r : r.vm = vmName /\ r.onErr # "deferred")
  \o log[vmName]

\* the calls main made that are about no VM
CommonCalls ==
  SelectSeq(log["main"], LAMBDA r : r.vm = "" /\ r.onErr # "deferred")

OpsOf(s) == [i \in 1..Len(s) |-> s[i].op]

\* every record of s but the last returned successfully
EachAfterSuccess(s) == \A i \in 1..(Len(s) - 1) : s[i].res = "ok"

----------------------------------------------------------------------------
(* C1: in every variant, when one of the four environment variables is     *)
(* empty, no remote call is ever issued: the program is still loading its  *)
(* credentials or has ended.                                               *)
C1_NoCallWithoutEnv ==
  MissingEnv =>
    /\ \A t \in Threads : log[t] = << >>
    /\ \A t \in VMs : st[t] = "idle"
    /\ Running =>
         \/ st["main"] \in {"returning", "failing"}
         \/ st["main"] = "ready" /\ ~AtEnd("main")
                                 /\ Cur("main").k \in {"env", "auth"}

\* part_000 with only AZURE_CLIENT_SECRET (the last one tested) empty has exited
C1_Witness ==
  /\ variant = "seq"
  /\ env = [v \in EnvVars |-> IF v = "AZURE_CLIENT_SECRET" THEN "" ELSE "set"]
  /\ exitCode = 1

----------------------------------------------------------------------------
(* C2: creation calls are issued in the order resource group, storage      *)
(* account, virtual network, subnet, and per VM public address, interface, *)
(* VM; each is issued only after the previous one of its pipeline returned *)
(* successfully, and a VM pipeline starts only after the subnet step.      *)

CommonCreateOrder ==
  << "groupClient.CreateOrUpdate", "accountClient.Create",
     "vNetClient.CreateOrUpdate", "subnetClient.CreateOrUpdate" >>

VmCreateOrder ==
  << "addressClient.CreateOrUpdate", "interfacesClient.CreateOrUpdate", "createVM" >>

IsCreate(r) ==
  \E i \in 1..Len(CommonCreateOrder \o VmCreateOrder) :
     (CommonCreateOrder \o VmCreateOrder)[i] = r.op

C2_CreationOrder ==
  /\ IsPrefix(OpsOf(SelectSeq(CommonCalls, IsCreate)), CommonCreateOrder)
  /\ EachAfterSuccess(SelectSeq(CommonCalls, IsCreate))
  /\ \A vmName \in VMs :
       /\ IsPrefix(OpsOf(SelectSeq(VmCalls(vmName), IsCreate)), VmCreateOrder)
       /\ EachAfterSuccess(SelectSeq(VmCalls(vmName), IsCreate))
       /\ VmCalls(vmName) # << >> =>
            /\ Len(SelectSeq(CommonCalls, IsCreate)) = Len(CommonCreateOrder)
            /\ \A i \in 1..Len(CommonCalls) :
                 IsCreate(CommonCalls[i]) => CommonCalls[i].res = "ok"

\* both VMs have been created, in the concurrent variant
C2_Witness ==
  /\ variant = "conc"
  /\ \A vmName \in VMs : Ok("createVM", vmName)

----------------------------------------------------------------------------
(* C3: the resize step issues Deallocate before the resize create-or-      *)
(* update, and the submitted size is (s if s > 0 else 256) + 10 for the    *)
(* fetched size s; a VM with no recorded size goes 0 -> 256 -> 266.        *)

\* the size fetched by the getVM that precedes record i of log l
FetchedBefore(l, i) ==
  LET j == CHOOSE j \in 1..i :
             /\ l[j].op = "getVM" /\ l[j].vm = l[i].vm
             /\ \A k \in (j + 1)..i : l[k].op # "getVM"
  IN  l[j].arg.size

HasGetBefore(l, i) == \E j \in 1..i : l[j].op = "getVM" /\ l[j].vm = l[i].vm

\* (s if s > 0 else 256), s absent counting as not positive
BaseSize(s) == IF s.isNil \/ s.v <= 0 THEN 256 ELSE s.v

DeallocateFirst(l, i) ==
  /\ i > 1
  /\ l[i - 1].op = "Deallocate" /\ l[i - 1].vm = l[i].vm
  /\ l[i - 1].res # "pending"
  /\ HasGetBefore(l, i)

\* x is a + b over the integers, x an int32
IsSum(x, a, b) == a <= MaxInt32 - b /\ x = a + b

\* the claim as stated, for every fetched size
C3_AsStated ==
  \A t \in Threads : \A i \in 1..Len(log[t]) :
    log[t][i].op = "updateOSdiskSize" =>
      /\ DeallocateFirst(log[t], i)
      /\ ~log[t][i].arg.size.isNil
      /\ IsSum(log[t][i].arg.size.v, BaseSize(FetchedBefore(log[t], i)), 10)

\* amended: the sum holds while it fits an int32, and wraps above that
C3_ResizeSize ==
  \A t \in Threads : \A i \in 1..Len(log[t]) :
    /\ log[t][i].op = "updateOSdiskSize" =>
         /\ DeallocateFirst(log[t], i)
         /\ ~log[t][i].arg.size.isNil
         /\ LET base == BaseSize(FetchedBefore(log[t], i))
                x    == log[t][i].arg.size.v
            IN  IF base <= MaxInt32 - 10
                THEN x = base + 10
                ELSE x < 0 /\ (x - MinInt32) + 1 = (base - MaxInt32) + 10
    /\ (log[t][i].op = "Deallocate" /\ i = Len(log[t]) /\ HasGetBefore(log[t], i)
        /\ FetchedBefore(log[t], i).isNil)
         => local[t].size = SizeOf(0)

\* a VM fetched without a size has been resized to 266
C3_Witness ==
  \E t \in Threads : \E i \in 1..Len(log[t]) :
    /\ log[t][i].op = "updateOSdiskSize" /\ log[t][i].res = "ok"
    /\ FetchedBefore(log[t], i).isNil
    /\ log[t][i].arg.size = SizeOf(266)

----------------------------------------------------------------------------
(* Vocabulary of the later properties *)

\* every call issued so far, the deferred delete included
EveryRecord == UNION {Records(t) : t \in Threads}

BatteryOrder ==
  << "getVM", "updateVM", "attachDataDisk", "detachDataDisks", "Deallocate",
     "updateOSdiskSize", "startVM", "restartVM", "stopVM" >>

IsOperation(r) == \E k \in 1..Len(BatteryOrder) : BatteryOrder[k] = r.op

IsDelete(r) == r.op \in {"deleteVM", "groupClient.Delete"}

BatteryComplete(vmName) ==
  \A k \in 1..Len(BatteryOrder) : Ok(BatteryOrder[k], vmName)

----------------------------------------------------------------------------
(* C4: in the concurrent variant no VM-operation call of either VM is      *)
(* issued before the create calls of both VMs returned successfully, and   *)
(* no delete call (VM or resource group) before both batteries completed.  *)
C4_JoinBarriers ==
  variant = "conc" =>
    /\ (\E r \in EveryRecord : IsOperation(r))
         => \A vmName \in VMs : Ok("createVM", vmName)
    /\ (\E r \in EveryRecord : IsDelete(r))
         => \A vmName \in VMs : BatteryComplete(vmName)

\* one VM is being deleted while the other delete has not been issued yet
C4_Witness ==
  /\ variant = "conc"
  /\ Issued("deleteVM", windowsVMname)
  /\ ~Issued("deleteVM", linuxVMname)

----------------------------------------------------------------------------
(* C5: a delete call for a VM is issued only if the create call of that    *)
(* same VM has returned successfully.                                      *)
C5_DeleteAfterCreate ==
  \A vmName \in VMs : Issued("deleteVM", vmName) => Ok("createVM", vmName)

\* the Windows VM has been deleted in the concurrent variant
C5_Witness == variant = "conc" /\ Ok("deleteVM", windowsVMname)

----------------------------------------------------------------------------
(* C6: as stated, in every variant a remote call that returned an error   *)
(* is the last call its thread issued, and the process is exiting.         *)
C6_AsStated ==
  \A t \in Threads : \A i \in 1..Len(log[t]) :
    log[t][i].res = "err" =>
      /\ i = Len(log[t])
      /\ st[t] \in {"failing", "returning"} \/ ~Running

(* C6 amended: in the two fail-fast variants a failed call of the pipeline *)
(* is the last call of its thread, which is about to exit with code 1;     *)
(* main stays behind its join; the call is not repeated and the deferred   *)
(* delete does not run.  The best-effort variant never exits on an error.  *)
C6_FailFast ==
  /\ variant \in {"seq", "conc"} =>
       \A t \in Threads : \A i \in 1..Len(log[t]) :
         (log[t][i].res = "err" /\ log[t][i].onErr # "deferred") =>
           /\ i = Len(log[t])
           /\ st[t] = "failing"
           /\ exitCode \in {NotExited, 1}
           /\ t \in VMs => /\ st["main"] = "ready" /\ ~AtEnd("main")
                           /\ Cur("main").k = "wait"
                           /\ wg > 0
           /\ \A j \in 1..(i - 1) :
                ~(log[t][j].op = log[t][i].op /\ log[t][j].vm = log[t][i].vm)
           /\ \A r \in EveryRecord : r.onErr # "deferred"
  /\ variant = "best" => st["main"] # "failing" /\ exitCode \in {NotExited, 0}

\* a goroutine's call failed and the process has exited
C6_Witness ==
  /\ variant = "conc"
  /\ exitCode = 1
  /\ \E t \in VMs : st[t] = "failing" /\ log[t][Len(log[t])].res = "err"

----------------------------------------------------------------------------
(* C7: the exit code is 1 whenever the run ends because of a fatal error   *)
(* (missing variable, failed authentication, failed call that stops the    *)
(* pipeline) and 0 only when the pipeline ran to normal completion.        *)

FatalError ==
  \/ MissingEnv
  \/ authFailed
  \/ \E r \in AllRecords : r.res = "err" /\ r.onErr \in {"exit", "return"}

C7_ExitCode ==
  ~Running =>
    /\ FatalError => exitCode = 1
    /\ exitCode = 0 => ~FatalError /\ AtEnd("main")

----------------------------------------------------------------------------
(* C8: as stated, every run that reaches teardown issues both VM deletes   *)
(* and then the resource-group delete, the latter only after both VM       *)
(* deletes returned.                                                       *)
C8_AsStated ==
  /\ (~Running /\ scanned) =>
       /\ \A vmName \in VMs : Issued("deleteVM", vmName)
       /\ Issued("groupClient.Delete", "")
  /\ (\E r \in EveryRecord : r.op = "groupClient.Delete") =>
       \A vmName \in VMs : Ok("deleteVM", vmName) \/ Failed("deleteVM", vmName)

(* C8 amended: the resource-group delete is issued only after both VM      *)
(* deletes returned successfully, and in every run that ends with both VM  *)
(* deletes successful; a run that reached teardown has issued a VM delete, *)
(* and ends without the group delete only when a VM delete failed.         *)
C8_Teardown ==
  /\ (\E r \in EveryRecord : r.op = "groupClient.Delete") =>
       \A vmName \in VMs : Ok("deleteVM", vmName)
  /\ (~Running /\ scanned) =>
       /\ \E vmName \in VMs : Issued("deleteVM", vmName)
       /\ \/ Issued("groupClient.Delete", "")
          \/ \E vmName \in VMs : Failed("deleteVM", vmName)
  /\ (\E r \in EveryRecord : IsDelete(r)) => scanned /\ variant # "best"

\* the resource group has been deleted after both VMs, sequential variant
C8_Witness ==
  /\ variant = "seq"
  /\ Ok("groupClient.Delete", "")
  /\ \A vmName \in VMs : Ok("deleteVM", vmName)

----------------------------------------------------------------------------
(* C9: in the best-effort variant, whatever the results of the operations  *)
(* of a battery, the remaining operations are issued in the fixed order,   *)
(* and the program goes on with the next VM (after the Linux battery) and  *)
(* with the listing (after the Windows battery).                           *)
C9_BestEffortBattery ==
  variant = "best" =>
    LET l == log["main"]
    IN  /\ \A i \in 1..Len(l) :
             (l[i].op = "getVM" /\ l[i].res = "ok") =>
               /\ \A k \in 1..8 :
                    i + k <= Len(l) =>
                      l[i + k].op = BatteryOrder[k + 1] /\ l[i + k].vm = l[i].vm
               /\ ~Running =>
                    /\ Len(l) >= i + 9
                    /\ l[i + 9].op = IF l[i].vm = linuxVMname
                                     THEN "addressClient.CreateOrUpdate"
                                     ELSE "listVMs"
                    /\ l[i + 9].vm = IF l[i].vm = linuxVMname
                                     THEN windowsVMname
                                     ELSE ""
        /\ (st["main"] = "returning" /\ Len(l) > 0) =>
             (~IsOperation(l[Len(l)]) \/ l[Len(l)].res # "err")

\* two operations of the Linux battery failed and the run went on to the listing
C9_Witness ==
  /\ variant = "best"
  /\ ~Running
  /\ Failed("updateVM", linuxVMname)
  /\ Failed("Deallocate", linuxVMname)
  /\ Issued("stopVM", linuxVMname)
  /\ Issued("listVMs", "")

----------------------------------------------------------------------------
(* C10: as stated, each VM's transition calls are issued in the fixed      *)
(* order and each only after the previous one succeeded, in every run.     *)

LifecycleOrder ==
  << "addressClient.CreateOrUpdate", "interfacesClient.CreateOrUpdate",
     "createVM", "updateVM", "attachDataDisk", "detachDataDisks",
     "Deallocate", "updateOSdiskSize", "startVM", "restartVM", "stopVM",
     "deleteVM" >>

IsTransition(r) == \E k \in 1..Len(LifecycleOrder) : LifecycleOrder[k] = r.op

Transitions(vmName) == SelectSeq(VmCalls(vmName), IsTransition)

C10_AsStated ==
  \A vmName \in VMs :
    /\ IsPrefix(OpsOf(Transitions(vmName)), LifecycleOrder)
    /\ EachAfterSuccess(Transitions(vmName))

(* C10 amended: the transition calls of a VM are issued in the fixed order *)
(* in every variant; each is issued only after the previous one succeeded  *)
(* in the two fail-fast variants, and up to the VM create in the           *)
(* best-effort variant, whose battery goes on after a failed operation and *)
(* which deletes nothing.                                                  *)
C10_Lifecycle ==
  \A vmName \in VMs :
    /\ IsPrefix(OpsOf(Transitions(vmName)), LifecycleOrder)
    /\ variant \in {"seq", "conc"} => EachAfterSuccess(Transitions(vmName))
    /\ variant = "best" =>
         /\ EachAfterSuccess(SelectSeq(VmCalls(vmName), IsCreate))
         /\ Len(Transitions(vmName)) > 3 => Ok("createVM", vmName)
         /\ ~Issued("deleteVM", vmName)

\* both VMs went through every state, sequential variant
C10_Witness ==
  /\ variant = "seq"
  /\ \A vmName \in VMs : Ok("deleteVM", vmName)
  /\ ~Issued("groupClient.Delete", "")

-----------------------------------------------------------------------------
(* C11: the create call of a VM is issued only after the network interface *)
(* of that VM was created and then fetched, both successfully, and the     *)
(* request references the interface ID that fetch returned; when a step of *)
(* the public address or of the interface failed, no create call is issued *)
(* for that VM.                                                            *)

AddressAndInterfaceCalls ==
  {"addressClient.CreateOrUpdate", "addressClient.Get",
   "interfacesClient.CreateOrUpdate", "interfacesClient.Get"}

C11_CreateAfterInterface ==
  \A vmName \in VMs :
    LET l == VmCalls(vmName)
    IN  /\ \A i \in 1..Len(l) :
             l[i].op = "createVM" =>
               \E c \in 1..i : \E g \in c..i :
                 /\ l[c].op = "interfacesClient.CreateOrUpdate" /\ l[c].res = "ok"
                 /\ l[g].op = "interfacesClient.Get" /\ l[g].res = "ok"
                 /\ l[g].nic # NoID
                 /\ l[i].nic = l[g].nic
        /\ (\E op \in AddressAndInterfaceCalls : Failed(op, vmName))
             => ~Issued("createVM", vmName)

C11_Witness ==
  /\ \E r \in AllRecords :
       r.op = "createVM" /\ r.vm = linuxVMname /\ r.res = "ok"
                         /\ r.nic = NicResourceID(linuxVMname)
  /\ Failed("interfacesClient.Get", windowsVMname)

-----------------------------------------------------------------------------
(* C12: in the variants that wait for the user before the teardown         *)
(* (part_000, example.go) no delete call, of a VM or of the resource       *)
(* group, the deferred one included, is issued before fmt.Scanln returned, *)
(* and fmt.Scanln is reached only after the listing of the VMs returned.   *)

C12_TeardownGate ==
  variant \in {"seq", "conc"} =>
    /\ (\E r \in EveryRecord : IsDelete(r)) => scanned
    /\ (scanned \/ At("main", "scan")) => Ok("listVMs", "")

C12_Witness ==
  /\ variant = "conc"
  /\ scanned
  /\ \E r \in Records(linuxVMname) : r.op = "deleteVM" /\ r.res = "pending"
  /\ ~Issued("deleteVM", windowsVMname)

-----------------------------------------------------------------------------
(* C13: the resource group is created at most once and no run issues a     *)
(* second delete call for it; on a run that went through the teardown with *)
(* every call successful the resource group was created once and its       *)
(* delete requested once, after both VM deletes returned.                  *)

GroupCalls(op) == SelectSeq(log["main"], LAMBDA r : r.op = op)

C13_GroupDeletedOnce ==
  /\ Len(GroupCalls("groupClient.CreateOrUpdate")) <= 1
  /\ Len(GroupCalls("groupClient.Delete")) <= 1
  /\ (~Running /\ scanned /\ exitCode = 0 /\ failures = 0) =>
       /\ Len(GroupCalls("groupClient.CreateOrUpdate")) = 1
       /\ Len(GroupCalls("groupClient.Delete")) = 1
  /\ (\E r \in EveryRecord : r.op = "groupClient.Delete") =>
       \A vmName \in VMs : Ok("deleteVM", vmName)

-----------------------------------------------------------------------------
(* C14: no compensation. When a call of the provisioning, of the VM        *)
(* creation, of a battery or the listing has failed, no delete call was or *)
(* is issued for anything created, and on a run in which any call failed   *)
(* the deferred resource-group delete is not executed.                     *)

C14_NoCompensation ==
  /\ (\E r \in AllRecords : r.res = "err" /\ ~IsDelete(r)) =>
       \A r \in EveryRecord : ~IsDelete(r)
  /\ (\E r \in AllRecords : r.res = "err") =>
       \A r \in EveryRecord : r.onErr # "deferred"

C14_Witness ==
  /\ variant = "seq"
  /\ deferred
  /\ Ok("createVM", linuxVMname)
  /\ Failed("attachDataDisk", linuxVMname)
  /\ exitCode = 1

-----------------------------------------------------------------------------
(* C15: as stated, in every variant the resize create-or-update of a VM is *)
(* issued only after the Deallocate of that VM returned successfully, and  *)
(* a failed Deallocate is followed by no resize.                           *)

C15_AsStated ==
  \A vmName \in VMs :
    /\ Issued("updateOSdiskSize", vmName) => Ok("Deallocate", vmName)
    /\ Failed("Deallocate", vmName) => ~Issued("updateOSdiskSize", vmName)

(* C15, amended: in every variant the resize is issued only after the      *)
(* Deallocate of that VM, the call just before it, has returned; in the    *)
(* fail-fast variants it returned successfully and a failed Deallocate is  *)
(* followed by no resize; in the best-effort variant the resize is         *)
(* submitted whether the Deallocate succeeded or failed.                   *)
C15_ResizeAfterDeallocate ==
  /\ \A t \in Threads : \A i \in 1..Len(log[t]) :
       log[t][i].op = "updateOSdiskSize" =>
         /\ i > 1
         /\ log[t][i - 1].op = "Deallocate"
         /\ log[t][i - 1].vm = log[t][i].vm
         /\ log[t][i - 1].res \in {"ok", "err"}
         /\ variant # "best" => log[t][i - 1].res = "ok"
  /\ \A vmName \in VMs :
       /\ (variant # "best" /\ Failed("Deallocate", vmName))
            => ~Issued("updateOSdiskSize", vmName)
       /\ (variant = "best" /\ Failed("Deallocate", vmName)
            /\ st["main"] = "returning")
            => Issued("updateOSdiskSize", vmName)

C15_Witness ==
  /\ variant = "conc"
  /\ Failed("Deallocate", linuxVMname)
  /\ ~Issued("updateOSdiskSize", linuxVMname)
  /\ Ok("Deallocate", windowsVMname)
  /\ Issued("updateOSdiskSize", windowsVMname)

-----------------------------------------------------------------------------
(* C16: every mutating step of a battery submits a representation fetched  *)
(* after the previous mutating call for that VM completed, so that a       *)
(* change another client made to the remote VM between two battery steps   *)
(* is not overwritten by the later step: the tags that client set stay.    *)

C16_NoLostUpdate ==
  \A vmName \in VMs : extChanges[vmName] > 0 => remoteTags[vmName] = "other"

-----------------------------------------------------------------------------
(* C17: as stated, the representation a mutating step submits is the one   *)
(* before the step (the fetched one for the tag step, the one submitted by *)
(* the previous mutating step for the others) with only the step's own     *)
(* field overwritten: Tags by the tag step, the data disks by attach (one  *)
(* disk at LUN 0) and detach (none), the OS-disk size by the resize; the   *)
(* tags are still there in the attach, detach and resize submissions and   *)
(* the resize submission has no data disk.                                 *)

\* the representation before the step of l[i]: the last one fetched or
\* submitted for the same VM
Before(l, i) ==
  LET j == CHOOSE j \in 1..(i - 1) :
             /\ l[j].vm = l[i].vm /\ l[j].op \in Submits \cup {"getVM"}
             /\ \A k \in (j + 1)..(i - 1) :
                  ~(l[k].vm = l[i].vm /\ l[k].op \in Submits \cup {"getVM"})
  IN  l[j].arg

HasBefore(l, i) ==
  \E j \in 1..(i - 1) :
    l[j].vm = l[i].vm /\ l[j].op \in Submits \cup {"getVM"}

OwnFieldOnly(l, i) ==
  LET b == Before(l, i)
      a == l[i].arg
  IN  CASE l[i].op = "updateVM"        -> a = [b EXCEPT !.tags = "set"]
        [] l[i].op = "attachDataDisk"  -> a = [b EXCEPT !.disks = <<0>>]
        [] l[i].op = "detachDataDisks" -> a = [b EXCEPT !.disks = << >>]
        [] OTHER                       -> a = [b EXCEPT !.size = a.size]

CarriedOver(r) ==
  /\ r.op # "updateVM" => r.arg.tags = "set"
  /\ r.op = "updateOSdiskSize" => r.arg.disks = << >>

C17_AsStated ==
  \A t \in Threads : \A i \in 1..Len(log[t]) :
    log[t][i].op \in Submits =>
      /\ HasBefore(log[t], i)
      /\ OwnFieldOnly(log[t], i)
      /\ CarriedOver(log[t][i])

(* C17, amended: the same, except that in part_000 the tag submission also *)
(* carries ProvisioningState, InstanceView and VMID cleared, which the     *)
(* later submissions of that battery then carry cleared too.               *)
C17_FrameOfEachStep ==
  \A t \in Threads : \A i \in 1..Len(log[t]) :
    log[t][i].op \in Submits =>
      /\ HasBefore(log[t], i)
      /\ IF variant = "seq" /\ log[t][i].op = "updateVM"
         THEN /\ Before(log[t], i).ro = "set"
              /\ log[t][i].arg =
                   [Before(log[t], i) EXCEPT !.tags = "set", !.ro = "nil"]
         ELSE OwnFieldOnly(log[t], i)
      /\ CarriedOver(log[t][i])
      /\ log[t][i].arg.ro = IF variant = "seq" THEN "nil" ELSE "set"

C17_Witness ==
  /\ variant = "seq"
  /\ \E r \in AllRecords :
       /\ r.op = "updateOSdiskSize" /\ r.vm = windowsVMname
       /\ r.arg = [tags |-> "set", disks |-> << >>, size |-> SizeOf(40),
                   ro |-> "nil"]
  /\ \E r \in AllRecords :
       /\ r.op = "attachDataDisk" /\ r.vm = windowsVMname
       /\ r.arg = [tags |-> "set", disks |-> <<0>>, size |-> SizeOf(30),
                   ro |-> "nil"]

-----------------------------------------------------------------------------
(* C18: in every variant and under every interleaving the listing of the   *)
(* VMs is issued, once, only after the batteries of both VMs are over      *)
(* (every call of them returned successfully in the fail-fast variants; in *)
(* the best-effort variant the last call returned or the battery was given *)
(* up at its Get), and no delete call is issued before the listing         *)
(* returned.                                                               *)

BatteryOver(vmName) ==
  \/ \E r \in AllRecords :
       r.op = "stopVM" /\ r.vm = vmName /\ r.res \in {"ok", "err"}
  \/ Failed("getVM", vmName)

Listings == SelectSeq(log["main"], LAMBDA r : r.op = "listVMs")

C18_ListingBetween ==
  /\ Len(Listings) <= 1
  /\ \A t \in VMs : \A r \in Records(t) : r.op # "listVMs"
  /\ Issued("listVMs", "") =>
       \A vmName \in VMs :
         /\ BatteryOver(vmName)
         /\ variant # "best" => BatteryComplete(vmName)
  /\ (\E r \in EveryRecord : IsDelete(r)) =>
       \E r \in AllRecords : r.op = "listVMs" /\ r.res \in {"ok", "err"}
  /\ (variant # "best" /\ \E r \in EveryRecord : IsDelete(r)) =>
       Ok("listVMs", "")

C18_Witness ==
  /\ variant = "conc"
  /\ \E r \in AllRecords : r.op = "listVMs" /\ r.res = "pending"
  /\ \A vmName \in VMs : BatteryComplete(vmName)
  /\ \A r \in EveryRecord : ~IsDelete(r)

-----------------------------------------------------------------------------
(* C19: there is no cancellation and no timeout. As stated: as long as a   *)
(* remote call of the pipeline has not returned, the process has not       *)
(* terminated.                                                             *)

\* the call t made last has not returned
Outstanding(t) ==
  /\ Len(log[t]) > 0
  /\ log[t][Len(log[t])].res = "pending"
  /\ log[t][Len(log[t])].onErr # "deferred"

C19_AsStated == (\E t \in Threads : Outstanding(t)) => Running

(* C19, amended: as long as a call has not returned, the thread that made  *)
(* it issues no later call; when it is a call of main the process has not  *)
(* terminated; when it is a call of a goroutine of the concurrent variant, *)
(* main is blocked in wg.Wait with a positive counter, so that the listing *)
(* and the teardown (resp. the resource-group delete, in the delete phase) *)
(* are not reached even when the other goroutine has finished, and the     *)
(* process has terminated only if a call of the other goroutine failed,    *)
(* with exit code 1.                                                       *)
C19_NoTimeout ==
  /\ \A t \in Threads : \A i \in 1..(Len(log[t]) - 1) :
       log[t][i].res # "pending"
  /\ Outstanding("main") => Running /\ st["main"] = "pending"
  /\ \A t \in VMs :
       Outstanding(t) =>
         /\ st[t] = "pending"
         /\ st["main"] = "ready" /\ ~AtEnd("main") /\ Cur("main").k = "wait"
         /\ wg > 0
         /\ fn[t] \in {"createVM", "vmOperations"} =>
              /\ ~Issued("listVMs", "")
              /\ \A r \in EveryRecord : ~IsDelete(r)
         /\ \A r \in EveryRecord : r.op # "groupClient.Delete"
         /\ ~Running =>
              /\ exitCode = 1
              /\ \E u \in VMs \ {t} :
                   st[u] = "failing" /\ log[u][Len(log[u])].res = "err"

C19_Witness ==
  /\ variant = "conc"
  /\ Running
  /\ Outstanding(linuxVMname)
  /\ fn[linuxVMname] = "vmOperations"
  /\ st[windowsVMname] = "idle"
  /\ Ok("stopVM", windowsVMname)
  /\ wg = 1

-----------------------------------------------------------------------------
(* C20: in the concurrent variant the two pipelines share no mutable       *)
(* state: under every interleaving the calls a goroutine makes are about   *)
(* its own VM, in the order of the pipeline run alone, the VM create       *)
(* references its own interface, and the tags, data disks and OS-disk size *)
(* it submits are those the pipeline run alone submits for the             *)
(* representation this goroutine fetched itself.                           *)

\* the calls of one VM's pipeline when nothing fails
PipelineAlone(vmName) ==
  OpsOf(createVM(vmName, "exit")) \o OpsOf(vmOperations(vmName, "exit", "exit"))
  \o OpsOf(deleteVM(vmName))

\* what the battery run alone submits at step op for the fetched f
SubmittedAlone(op, f) ==
  CASE op = "updateVM" ->
         [f EXCEPT !.tags = "set"]
    [] op = "attachDataDisk" ->
         [f EXCEPT !.tags = "set", !.disks = <<0>>]
    [] op = "detachDataDisks" ->
         [f EXCEPT !.tags = "set", !.disks = << >>]
    [] OTHER ->
         [f EXCEPT !.tags = "set", !.disks = << >>,
                   !.size = SizeOf(Add32(BaseSize(f.size), SizeIncrement))]

OwnFetch(t) ==
  (CHOOSE r \in Records(t) : r.op = "getVM" /\ r.res = "ok").arg

C20_Independent ==
  variant = "conc" =>
    \A t \in VMs :
      /\ \A r \in Records(t) : r.vm = t
      /\ IsPrefix(OpsOf(log[t]), PipelineAlone(t))
      /\ \A r \in Records(t) :
           /\ r.op = "createVM" => r.nic = NicResourceID(t)
           /\ r.op \in Submits =>
                /\ \E g \in Records(t) : g.op = "getVM" /\ g.res = "ok"
                /\ r.arg = SubmittedAlone(r.op, OwnFetch(t))

C20_Witness ==
  /\ variant = "conc"
  /\ \E r \in Records(linuxVMname) :
       r.op = "updateOSdiskSize" /\ r.arg.size = SizeOf(40)
  /\ \E r \in Records(windowsVMname) :
       r.op = "updateOSdiskSize" /\ r.arg.size = SizeOf(266)
  /\ \E r \in Records(windowsVMname) :
       r.op = "getVM" /\ r.arg.size = NilSize

-----------------------------------------------------------------------------
(* C21: as stated, for a machine name of at least 5 characters the DNS     *)
(* label is "azuresample-" followed by the lower-cased first 5 characters  *)
(* of the name; for a shorter name the program faults while deriving the   *)
(* label, before any call about the machine is issued; the two fixed names *)
(* give pairwise distinct labels, address names, interface names and VHD   *)
(* URIs.                                                                   *)

LabelDerived == naming.step \notin {"unused", "start", "IPname"}

FirstFiveLowered(machine) == [i \in 1..LabelLen |-> ToLowerRune(machine[i])]

FixedNamesDistinct ==
  LET l == Spell(linuxVMname)
      w == Spell(windowsVMname)
  IN  /\ DomainNameLabel(l) = << "azuresample-", "l", "i", "n", "u", "x" >>
      /\ DomainNameLabel(w) = << "azuresample-", "w", "i", "n", "d", "o" >>
      /\ DomainNameLabel(l) # DomainNameLabel(w)
      /\ IPname(l) # IPname(w)
      /\ nicName(l) # nicName(w)
      /\ vhdURI(l) # vhdURI(w)

C21_AsStated ==
  LET m == naming.machine
  IN  /\ (LabelDerived /\ Len(m) >= LabelLen) =>
           /\ naming.step # "fault"
           /\ naming.label = << "azuresample-" >> \o FirstFiveLowered(m)
      /\ (LabelDerived /\ Len(m) < LabelLen) =>
           naming.step = "fault" /\ naming.calls = << >>
      /\ FixedNamesDistinct

(* C21, amended: the length that counts is the length in bytes: a name of  *)
(* at least 5 bytes gets the label "azuresample-" followed by the          *)
(* lower-cased first 5 bytes (the first 5 characters when these are ASCII, *)
(* fewer characters, the last one possibly cut, otherwise); a name of less *)
(* than 5 bytes faults while the label is derived, before any call about   *)
(* the machine is issued; the fixed names give distinct names.             *)
C21_Names ==
  LET m == naming.machine
      b == Bytes(m)
      ascii == \A i \in 1..Len(m) : Len(Utf8(m[i])) = 1
  IN  /\ (LabelDerived /\ Len(b) >= LabelLen) =>
           /\ naming.step # "fault"
           /\ naming.label = << "azuresample-" >> \o ToLower(SubSeq(b, 1, LabelLen))
           /\ ascii => naming.label = << "azuresample-" >> \o FirstFiveLowered(m)
      /\ (LabelDerived /\ Len(b) < LabelLen) =>
           naming.step = "fault" /\ naming.calls = << >>
      /\ naming.step = "fault" => naming.calls = << >> /\ Len(b) < LabelLen
      /\ FixedNamesDistinct

C21_Witness ==
  /\ naming.machine = Spell(windowsVMname)
  /\ naming.step = "created"
  /\ naming.label = << "azuresample-", "w", "i", "n", "d", "o" >>
  /\ naming.IPname = << "pip-" >> \o Spell(windowsVMname)

-----------------------------------------------------------------------------
(* C22: the counter of the WaitGroup stays in 0..2: it is 0 at every       *)
(* wg.Add(2), it is the number of goroutines of the current phase that     *)
(* have not returned (each decrements it once, when it returns), it never  *)
(* becomes negative, and main is blocked in wg.Wait as long as a goroutine *)
(* has not returned, so that the goroutines alive at any time are of the   *)
(* same phase.                                                             *)

\* the goroutines that were started and have not returned
Alive == {t \in VMs : st[t] # "idle"}

C22_WaitGroupCounter ==
  /\ wg \in 0..2
  /\ wg = Cardinality(Alive)
  /\ At("main", "go") => wg = 0 /\ Alive = {}
  /\ Alive # {} =>
       /\ variant = "conc"
       /\ st["main"] = "ready" /\ ~AtEnd("main") /\ Cur("main").k = "wait"
       /\ \A t \in Alive : \A u \in Alive : fn[t] = fn[u]
  /\ \A t \in VMs : \A r \in Records(t) :
       r.res = "pending" => t \in Alive

C22_Witness ==
  /\ variant = "conc"
  /\ wg = 1
  /\ fn[windowsVMname] = "deleteVM"
  /\ st[linuxVMname] = "idle"
  /\ st[windowsVMname] = "pending"
  /\ Ok("deleteVM", linuxVMname)

-----------------------------------------------------------------------------
(* C23: in the concurrent variant, once a call of one goroutine has failed *)
(* main never passes the join barrier it is waiting at: the failed         *)
(* goroutine never decrements the counter, no call of a later phase        *)
(* (operations, listing, VM delete, resource-group delete, the deferred    *)
(* one included) is issued for either VM, and the process ends with exit   *)
(* code 1 only, whatever the sibling goroutine is doing.                   *)

\* the calls of the phases after the phase of the function f
LaterPhase(f, r) ==
  CASE f = "createVM"     -> IsOperation(r) \/ r.op = "listVMs" \/ IsDelete(r)
    [] f = "vmOperations" -> r.op = "listVMs" \/ IsDelete(r)
    [] OTHER              -> r.op = "groupClient.Delete"

C23_ExitWithoutJoin ==
  variant = "conc" =>
    \A t \in VMs :
      (\E r \in Records(t) : r.res = "err") =>
        /\ log[t][Len(log[t])].res = "err"
        /\ st[t] = "failing"
        /\ wg > 0
        /\ st["main"] = "ready" /\ ~AtEnd("main") /\ Cur("main").k = "wait"
        /\ \A r \in EveryRecord : ~LaterPhase(fn[t], r)
        /\ exitCode \in {NotExited, 1}

C23_Witness ==
  /\ variant = "conc"
  /\ exitCode = 1
  /\ Failed("attachDataDisk", linuxVMname)
  /\ Ok("Deallocate", windowsVMname)
  /\ \E r \in Records(windowsVMname) :
       r.op = "updateOSdiskSize" /\ r.res = "pending"

-----------------------------------------------------------------------------
(* C24: when every remote call returns and the read of standard input      *)
(* returns, every variant terminates, under every interleaving of the      *)
(* goroutines; until then it has issued at most a fixed number of remote   *)
(* calls, and no call of the pipeline is issued twice.                     *)

\* every step that can be taken is taken in the end: the remote side answers
\* every call, the user enters a line, the scheduler runs what can run
FairSpec == Spec /\ WF_vars(Next)

\* the calls of the longest run: 5 for the common resources, 14 for each VM,
\* the listing, the two VM deletes, the resource-group delete and the
\* deferred one
MostCalls ==
  Len(createNeededResources("exit"))
  + 2 * (Len(createVM("", "exit")) + Len(vmOperations("", "exit", "exit")))
  + Len(listVMs("exit")) + 2 * Len(deleteVM("")) + 2

EveryCall == log["main"] \o log[linuxVMname] \o log[windowsVMname]

CallsBounded ==
  /\ Len(EveryCall) <= MostCalls
  /\ \A i \in 1..Len(EveryCall) : \A j \in (i + 1)..Len(EveryCall) :
       (EveryCall[i].op = EveryCall[j].op /\ EveryCall[i].vm = EveryCall[j].vm)
         => EveryCall[j].onErr = "deferred"

C24_Terminates == <>(~Running) /\ []CallsBounded

C24_Witness ==
  /\ variant = "conc"
  /\ exitCode = 0
  /\ Len(EveryCall) = MostCalls

-----------------------------------------------------------------------------
(* C25: in the best-effort variant a failure in setup or in creating a VM  *)
(* (public address, interface, VM create) stops the program: it is the     *)
(* last call, so no later VM is created, no later battery is run and no    *)
(* listing is issued; a failed Get of a battery skips the rest of that     *)
(* battery only: the next VM is still created and operated on and the      *)
(* listing is still issued; a failed listing is only logged.               *)

\* the calls of setup and of the creation of a VM
StopsProgram(r) == ~IsOperation(r) /\ r.op # "listVMs"

C25_StagePolicy ==
  variant = "best" =>
    LET l == log["main"]
    IN  /\ (MissingEnv \/ authFailed) /\ st["main"] = "returning" => l = << >>
        /\ \A i \in 1..Len(l) :
             (l[i].res = "err" /\ StopsProgram(l[i])) =>
               /\ i = Len(l)
               /\ st["main"] = "returning"
               /\ l[i].vm \in {"", linuxVMname} =>
                    \A r \in Records("main") : r.vm # windowsVMname
               /\ \A r \in Records("main") :
                    r.op # "listVMs" /\ ~(IsOperation(r) /\ r.vm = l[i].vm)
        /\ \A i \in 1..Len(l) :
             (l[i].res = "err" /\ l[i].op = "getVM") =>
               /\ \A r \in Records("main") :
                    (IsOperation(r) /\ r.vm = l[i].vm) => r = l[i]
               /\ i < Len(l) =>
                    IF l[i].vm = linuxVMname
                    THEN /\ l[i + 1].op = "addressClient.CreateOrUpdate"
                         /\ l[i + 1].vm = windowsVMname
                    ELSE l[i + 1].op = "listVMs"
               /\ ~Running => i < Len(l)
               /\ (~Running /\ Ok("createVM", windowsVMname)) =>
                    Issued("getVM", windowsVMname) /\ Issued("listVMs", "")
        /\ Failed("listVMs", "") =>
             /\ l[Len(l)].op = "listVMs"
             /\ st["main"] = "ready" /\ AtEnd("main")
             /\ exitCode \in {NotExited, 0}

C25_Witness ==
  /\ variant = "best"
  /\ Failed("getVM", linuxVMname)
  /\ Ok("createVM", windowsVMname)
  /\ Ok("stopVM", windowsVMname)
  /\ Failed("listVMs", "")
  /\ exitCode = 0

====
